---------------------------- MODULE Spec2Model ----------------------------
(***************************************************************************)
(* Evolution Game (fltman/breed): the Flask handlers of app.py and the     *)
(* command-line tool generate_image.py, as state machines over the         *)
(* generated-images directory, the state file and the CLI's output file.   *)
(*                                                                         *)
(* Strings are sequences of one-character strings, bytes are naturals      *)
(* below 256, an optional value (Python's None or a value) is a record     *)
(* [has, v].                                                               *)
(***************************************************************************)
EXTENDS Integers, Sequences, FiniteSets, TLC

(***************************************************************************)
(* Bounds of the model.                                                    *)
(***************************************************************************)
\* how many distinct 8-character identifiers uuid4 can mint in the model
NumIds == 2
\* how many save-state requests are in flight together
NumSavers == 2
\* longest media list of a candidate message in the extraction check
MaxImages == 2

(***************************************************************************)
(* Strings.                                                                *)
(***************************************************************************)
Nothing == [has |-> FALSE, v |-> <<>>]

Some(s) == [has |-> TRUE, v |-> s]

\* Python truthiness of an optional string: None and "" are both falsy
Truthy(o) == o.has /\ o.v # <<>>

\* str.startswith
StartsWith(s, p) == Len(s) >= Len(p) /\ SubSeq(s, 1, Len(p)) = p

\* s[:n] for n >= 0
SliceHead(s, n) == SubSeq(s, 1, IF Len(s) < n THEN Len(s) ELSE n)

\* s[-n:] for n > 0
SliceTail(s, n) == SubSeq(s, (IF Len(s) < n THEN 0 ELSE Len(s) - n) + 1, Len(s))

IsSpace(c) == c \in {" ", "\n", "\t"}

RECURSIVE LStrip(_)
LStrip(s) == IF s # <<>> /\ IsSpace(Head(s)) THEN LStrip(Tail(s)) ELSE s

RECURSIVE RStrip(_)
RStrip(s) ==
    IF s # <<>> /\ IsSpace(s[Len(s)]) THEN RStrip(SubSeq(s, 1, Len(s) - 1)) ELSE s

\* str.strip()
Strip(s) == RStrip(LStrip(s))

\* index of the first c in s, 0 when there is none (str.find + 1)
RECURSIVE FindFrom(_, _, _)
FindFrom(s, c, i) ==
    IF i > Len(s) THEN 0
    ELSE IF s[i] = c THEN i
    ELSE FindFrom(s, c, i + 1)

\* data_url.split(',', 1)[1]: the part after the first comma; a URL with no
\* comma splits into one element and the index raises IndexError
SplitComma1(url) ==
    LET k == FindFrom(url, ",", 1)
    IN  IF k = 0 THEN [ok |-> FALSE, v |-> <<>>]
        ELSE [ok |-> TRUE, v |-> SubSeq(url, k + 1, Len(url))]

(***************************************************************************)
(* base64.b64decode(s) with validate=False, as binascii.a2b_base64 decodes *)
(* it: characters outside the alphabet are skipped, a completed pad run    *)
(* ends the input, leftover sextets raise binascii.Error.                  *)
(***************************************************************************)
B64Chars ==
    << "A","B","C","D","E","F","G","H","I","J","K","L","M","N","O","P",
       "Q","R","S","T","U","V","W","X","Y","Z","a","b","c","d","e","f",
       "g","h","i","j","k","l","m","n","o","p","q","r","s","t","u","v",
       "w","x","y","z","0","1","2","3","4","5","6","7","8","9","+","/" >>

InB64(c) == \E i \in 1..Len(B64Chars) : B64Chars[i] = c

B64Val(c) == (CHOOSE i \in 1..Len(B64Chars) : B64Chars[i] = c) - 1

RECURSIVE A2B(_, _, _, _, _, _)
A2B(s, i, quad, pads, left, out) ==
    IF i > Len(s)
    THEN [ok |-> quad = 0, bytes |-> IF quad = 0 THEN out ELSE <<>>]
    ELSE IF s[i] = "="
    THEN IF quad >= 2 /\ quad + pads + 1 >= 4
         THEN [ok |-> TRUE, bytes |-> out]
         ELSE A2B(s, i + 1, quad, IF quad >= 2 THEN pads + 1 ELSE pads, left, out)
    ELSE IF ~InB64(s[i])
    THEN A2B(s, i + 1, quad, pads, left, out)
    ELSE LET v == B64Val(s[i])
         IN  CASE quad = 0 -> A2B(s, i + 1, 1, 0, v, out)
               [] quad = 1 ->
                    A2B(s, i + 1, 2, 0, v % 16, Append(out, left * 4 + v \div 16))
               [] quad = 2 ->
                    A2B(s, i + 1, 3, 0, v % 4, Append(out, left * 16 + v \div 4))
               [] OTHER ->
                    A2B(s, i + 1, 0, 0, 0, Append(out, left * 64 + v))

b64decode(s) == A2B(s, 1, 0, 0, 0, <<>>)

(***************************************************************************)
(* Model responses.  A response is the list of its candidate messages; a   *)
(* candidate whose message is None has present = FALSE.                    *)
(***************************************************************************)
DataImage == << "d","a","t","a",":","i","m","a","g","e" >>

PngB64 == << "/","p","n","g",";","b","a","s","e","6","4" >>

\* data:image/png;base64,<payload>
DataUrl(payload) == DataImage \o PngB64 \o << "," >> \o payload

\* data:image/png   (begins with data:image, holds no comma)
NoCommaUrl == DataImage \o << "/","p","n","g" >>

\* data:text,AAAA   (a data-URI that is not an image)
TextUrl == << "d","a","t","a",":","t","e","x","t",",","A","A","A","A" >>

\* data:image,AA,AA   (two commas: the payload is what follows the first)
TwoCommaUrl == DataImage \o << ",","A","A",",","A","A" >>

Item(type, url) == [type |-> type, url |-> url]

Message(content, hasImages, images) ==
    [present |-> TRUE, content |-> content, hasImages |-> hasImages, images |-> images]

NoMessage ==
    [present |-> FALSE, content |-> Nothing, hasImages |-> FALSE, images |-> <<>>]

(***************************************************************************)
(* extract_image_from_response                                             *)
(***************************************************************************)
ItemMatches(img) == img.type = "image_url" /\ StartsWith(img.url, DataImage)

\* the for loop over message.images: index of the item it breaks on, 0 when
\* it runs off the end
RECURSIVE ScanImages(_, _)
ScanImages(images, i) ==
    IF i > Len(images) THEN 0
    ELSE IF ItemMatches(images[i]) THEN i
    ELSE ScanImages(images, i + 1)

extract_image_from_response(response) ==
    IF response = <<>> \/ ~response[1].present
    THEN [raised |-> FALSE, image |-> Nothing, text |-> Nothing]
    ELSE LET message == response[1]
             text_content == IF Truthy(message.content) THEN message.content ELSE Nothing
             k == IF message.hasImages /\ message.images # <<>>
                  THEN ScanImages(message.images, 1) ELSE 0
         IN  IF k = 0
             THEN [raised |-> FALSE, image |-> Nothing, text |-> text_content]
             ELSE LET part == SplitComma1(message.images[k].url)
                  IN  IF part.ok
                      THEN [raised |-> FALSE, image |-> Some(part.v), text |-> text_content]
                      ELSE [raised |-> TRUE, image |-> Nothing, text |-> Nothing]

(***************************************************************************)
(* JSON values as Python holds them after request.json: a node is          *)
(* [t, a, k] with t the kind, a the characters of a number, string or key  *)
(* and k the children (a dict is the list of its pairs in insertion order).*)
(***************************************************************************)
JNull == [t |-> "null", a |-> <<>>, k |-> <<>>]

JTrue == [t |-> "true", a |-> <<>>, k |-> <<>>]

JNum(digits) == [t |-> "num", a |-> digits, k |-> <<>>]

JStr(chars) == [t |-> "str", a |-> chars, k |-> <<>>]

JArr(items) == [t |-> "arr", a |-> <<>>, k |-> items]

JPair(key, val) == [t |-> "pair", a |-> key, k |-> <<val>>]

JObj(pairs) == [t |-> "obj", a |-> <<>>, k |-> pairs]

Digits == {"0", "1", "2", "3", "4", "5", "6", "7", "8", "9"}

\* what json.dump writes between items under indent=2: a newline and two
\* spaces per nesting level
RECURSIVE Indent(_)
Indent(level) == IF level = 0 THEN <<>> ELSE << "  " >> \o Indent(level - 1)

NewlineIndent(level) == << "\n" >> \o Indent(level)

\* json.dump(data, f, indent=2): the text written, as its tokens
RECURSIVE Dump(_, _)
RECURSIVE DumpItems(_, _, _)
Dump(node, level) ==
    CASE node.t = "null" -> << "null" >>
      [] node.t = "true" -> << "true" >>
      [] node.t = "num" -> node.a
      [] node.t = "str" -> << "\"" >> \o node.a \o << "\"" >>
      [] node.t = "pair" ->
            << "\"" >> \o node.a \o << "\"", ":", " " >> \o Dump(node.k[1], level)
      [] node.t = "arr" ->
            IF node.k = <<>> THEN << "[", "]" >>
            ELSE << "[" >> \o NewlineIndent(level + 1) \o DumpItems(node.k, 1, level + 1)
                 \o NewlineIndent(level) \o << "]" >>
      [] OTHER ->
            IF node.k = <<>> THEN << "{", "}" >>
            ELSE << "{" >> \o NewlineIndent(level + 1) \o DumpItems(node.k, 1, level + 1)
                 \o NewlineIndent(level) \o << "}" >>

DumpItems(items, i, level) ==
    IF i = Len(items) THEN Dump(items[i], level)
    ELSE Dump(items[i], level) \o << "," >> \o NewlineIndent(level)
         \o DumpItems(items, i + 1, level)

json_dump(data) == Dump(data, 0)

\* json.load: whitespace is skipped between tokens
IsWs(tok) == tok \in {"\n", "  ", " "}

RECURSIVE SkipWs(_)
SkipWs(ts) == IF ts # <<>> /\ IsWs(Head(ts)) THEN SkipWs(Tail(ts)) ELSE ts

RECURSIVE CountDigits(_, _)
CountDigits(ts, i) ==
    IF i <= Len(ts) /\ ts[i] \in Digits THEN CountDigits(ts, i + 1) ELSE i - 1

ParseFail == [ok |-> FALSE, v |-> JNull, rest |-> <<>>]

ParseOk(v, rest) == [ok |-> TRUE, v |-> v, rest |-> rest]

\* dict[key] = val: a repeated key keeps its place and takes the later value
RECURSIVE PutPair(_, _, _, _)
PutPair(pairs, key, val, i) ==
    IF i > Len(pairs) THEN Append(pairs, JPair(key, val))
    ELSE IF pairs[i].a = key THEN [pairs EXCEPT ![i] = JPair(key, val)]
    ELSE PutPair(pairs, key, val, i + 1)

RECURSIVE ParseValue(_)
RECURSIVE ParseItems(_, _)
RECURSIVE ParseMembers(_, _)
ParseString(ts) ==
    \* ts starts after the opening quote
    LET q == FindFrom(ts, "\"", 1)
    IN  IF q = 0 THEN ParseFail
        ELSE ParseOk(JStr(SubSeq(ts, 1, q - 1)), SubSeq(ts, q + 1, Len(ts)))

ParseValue(ts0) ==
    LET ts == SkipWs(ts0)
    IN  IF ts = <<>> THEN ParseFail
        ELSE CASE Head(ts) = "null" -> ParseOk(JNull, Tail(ts))
               [] Head(ts) = "true" -> ParseOk(JTrue, Tail(ts))
               [] Head(ts) \in Digits ->
                    LET n == CountDigits(ts, 1)
                    IN  ParseOk(JNum(SubSeq(ts, 1, n)), SubSeq(ts, n + 1, Len(ts)))
               [] Head(ts) = "\"" -> ParseString(Tail(ts))
               [] Head(ts) = "[" ->
                    LET body == SkipWs(Tail(ts))
                    IN  IF body # <<>> /\ Head(body) = "]"
                        THEN ParseOk(JArr(<<>>), Tail(body))
                        ELSE ParseItems(body, <<>>)
               [] Head(ts) = "{" ->
                    LET body == SkipWs(Tail(ts))
                    IN  IF body # <<>> /\ Head(body) = "}"
                        THEN ParseOk(JObj(<<>>), Tail(body))
                        ELSE ParseMembers(body, <<>>)
               [] OTHER -> ParseFail

ParseItems(ts, acc) ==
    LET r == ParseValue(ts)
        rest == SkipWs(r.rest)
    IN  IF ~r.ok \/ rest = <<>> THEN ParseFail
        ELSE IF Head(rest) = "," THEN ParseItems(Tail(rest), Append(acc, r.v))
        ELSE IF Head(rest) = "]" THEN ParseOk(JArr(Append(acc, r.v)), Tail(rest))
        ELSE ParseFail

ParseMembers(ts0, acc) ==
    LET ts == SkipWs(ts0)
    IN  IF ts = <<>> \/ Head(ts) # "\"" THEN ParseFail
        ELSE LET key == ParseString(Tail(ts))
                 colon == SkipWs(key.rest)
             IN  IF ~key.ok \/ colon = <<>> \/ Head(colon) # ":" THEN ParseFail
                 ELSE LET r == ParseValue(Tail(colon))
                          rest == SkipWs(r.rest)
                          pairs == PutPair(acc, key.v.a, r.v, 1)
                      IN  IF ~r.ok \/ rest = <<>> THEN ParseFail
                          ELSE IF Head(rest) = "," THEN ParseMembers(Tail(rest), pairs)
                          ELSE IF Head(rest) = "}" THEN ParseOk(JObj(pairs), Tail(rest))
                          ELSE ParseFail

\* json.load(f): one value, then only whitespace ("Extra data" otherwise)
json_load(text) ==
    LET r == ParseValue(text)
    IN  IF r.ok /\ SkipWs(r.rest) = <<>> THEN [ok |-> TRUE, v |-> r.v]
        ELSE [ok |-> FALSE, v |-> JNull]

\* the documents clients save
IdAb == << "a","b","1","2" >>

Leaves == {JNull, JTrue, JNum(<< "1" >>), JNum(<< "4","2" >>), JStr(IdAb), JStr(<<>>)}

Creature == JObj(<< JPair(<< "i","d" >>, JStr(IdAb)) >>)

Arrays ==
    {JArr(<<>>)} \cup {JArr(<< x >>) : x \in Leaves \cup {Creature}}
    \cup {JArr(<< Creature, x >>) : x \in {Creature, JNull}}

Animals == << "a","n","i","m","a","l","s" >>

FamilyLines == << "f","a","m","i","l","y","L","i","n","e","s" >>

\* {"animals": [], "familyLines": []}
EmptyGame == JObj(<< JPair(Animals, JArr(<<>>)), JPair(FamilyLines, JArr(<<>>)) >>)

Docs ==
    Leaves \cup Arrays \cup {JObj(<<>>), EmptyGame}
    \cup {JObj(<< JPair(Animals, x) >>) : x \in Arrays}
    \cup {JObj(<< JPair(Animals, x), JPair(FamilyLines, JArr(<< JArr(<<>>) >>)) >>) :
            x \in {JArr(<< Creature >>)}}

\* the documents of the requests that run beside the image handlers
FewDocs == {EmptyGame, JObj(<< JPair(Animals, JArr(<< Creature >>)) >>)}

(***************************************************************************)
(* The state.                                                              *)
(***************************************************************************)
VARIABLES
    apiKey,     \* whether OPENROUTER_API_KEY is set in the environment
    images,     \* IMAGES_DIR: file name -> file; name 0 is "None.png"
    stateFile,  \* STATE_FILE
    returned,   \* the identifiers success responses have carried so far
    saved,      \* the document of the last save-state request that succeeded
    web,        \* the last web request and its response
    savers,     \* the save-state requests in flight, each at a step
    cli,        \* the last run of the command-line tool
    outFile,    \* the file at the tool's --output path
    probe       \* the last response handed to the extractor alone

vars == << apiKey, images, stateFile, returned, saved, web, savers, cli, outFile, probe >>

\* the identifiers str(uuid.uuid4())[:8] can give
Ids == 1..NumIds

\* what f"{parent_id}.png" can name: an identifier's file, or None.png (0)
\* when the body holds no id
FileNames == 0..NumIds

NoFile == [exists |-> FALSE, data |-> <<>>]

File(data) == [exists |-> TRUE, data |-> data]

(***************************************************************************)
(* What the hosted model can answer.                                       *)
(***************************************************************************)
PayloadA == << "A","A","A","A" >>

PayloadABC == << "Q","U","J","D" >>

\* three characters: binascii raises "Incorrect padding"
PayloadBad == << "A","A","A" >>

Zephyr == << "Z","e","p","h","y","r" >>

HttpUrl == << "h","t","t","p",":","/","/","x",",","y" >>

Img(payload) == Item("image_url", DataUrl(payload))

WebResponses ==
    { <<>>,
      << NoMessage >>,
      << Message(Some(Zephyr), FALSE, <<>>) >>,
      << Message(Nothing, TRUE, << Img(PayloadA) >>) >>,
      << Message(Some(<< " ","A","b","\n" >>), TRUE,
                 << Item("text", <<>>), Item("image_url", HttpUrl),
                    Img(PayloadA), Img(PayloadABC) >>) >>,
      << Message(Some(<< " "," " >>), TRUE, << Img(PayloadA) >>) >>,
      << Message(Some(Zephyr), TRUE, << Img(<<>>) >>) >>,
      << Message(Some(Zephyr), TRUE, << Item("image_url", NoCommaUrl) >>) >>,
      << Message(Some(Zephyr), TRUE, << Img(PayloadBad) >>) >> }

\* what a chat-completion call does: it raises, or it returns a response
Raises == [raises |-> TRUE, r |-> <<>>]

Returns(r) == [raises |-> FALSE, r |-> r]

Upstream == {Raises} \cup {Returns(r) : r \in WebResponses}

\* a parent name in a breed body: the key is absent, null, or a string
NameAbsent == [kind |-> "absent", v |-> <<>>]

NameNull == [kind |-> "null", v |-> <<>>]

NameStr(s) == [kind |-> "str", v |-> s]

Alphaborn == << "A","l","p","h","a","b","o","r","n" >>

Zephyrix == << "Z","e","p","h","y","r","i","x" >>

NamePairs ==
    { << NameAbsent, NameAbsent >>,
      << NameStr(Alphaborn), NameStr(Zephyrix) >>,
      << NameStr(<< "O","x" >>), NameStr(<< "y" >>) >>,
      << NameStr(Alphaborn), NameNull >> }

Creature1 == << "c","r","e","a","t","u","r","e"," ","1" >>

Creature2 == << "c","r","e","a","t","u","r","e"," ","2" >>

UnknownCreature ==
    << "U","n","k","n","o","w","n"," ","C","r","e","a","t","u","r","e" >>

\* data.get(key, default): the default stands in only for an absent key
GetName(n, default) ==
    IF n.kind = "absent" THEN Some(default)
    ELSE IF n.kind = "null" THEN Nothing
    ELSE Some(n.v)

(***************************************************************************)
(* Responses of the web handlers.  body is "ok" for the success JSON,      *)
(* "error" for jsonify({"error": ...}) and "unhandled" for the page Flask  *)
(* makes of an exception no handler caught.                                *)
(***************************************************************************)
WebIdle ==
    [op |-> "none", status |-> 0, body |-> "none", id |-> 0, name |-> <<>>,
     doc |-> JNull, clients |-> 0, chats |-> 0, resp |-> <<>>, called |-> FALSE,
     p1 |-> 0, p2 |-> 0, n1 |-> NameAbsent, n2 |-> NameAbsent]

Reply(op, status, body, clients, chats) ==
    [WebIdle EXCEPT !.op = op, !.status = status, !.body = body,
                    !.clients = clients, !.chats = chats]

\* get_client: raises ValueError when the key is not set
get_client(key) == [ok |-> key]

\* encode_image: open(path, "rb") raises FileNotFoundError on a missing file
encode_image(file) == [ok |-> file.exists]

\* mutant of image_path: the braces of the f-string forgotten, every image
\* goes to one file that no identifier names
image_path_literal(image_id) == 0

\* IMAGES_DIR / f"{image_id}.png": the file name an identifier stands for
image_path(image_id) == image_id

\* open(image_path, "wb"): the file exists and is empty from here on
OpenWb(dir, path) == [dir EXCEPT ![path] = File(<<>>)]

\* f.write(bytes) on the file just opened
WriteImage(dir, path, bytes) == [dir EXCEPT ![path] = File(bytes)]

\* mutant of BreedName: the fallback takes the first three characters of
\* both names
BreedNameHeads(text, name1, name2) ==
    IF Truthy(text) THEN [ok |-> TRUE, v |-> Strip(text.v)]
    ELSE IF ~name1.has \/ ~name2.has THEN [ok |-> FALSE, v |-> <<>>]
    ELSE [ok |-> TRUE, v |-> SliceHead(name1.v, 3) \o SliceHead(name2.v, 3)]

\* the name of a breed response: name.strip() if name else
\* f"{parent1_name[:3]}{parent2_name[-3:]}"; slicing None raises TypeError
BreedName(text, name1, name2) ==
    IF Truthy(text) THEN [ok |-> TRUE, v |-> Strip(text.v)]
    ELSE IF ~name1.has \/ ~name2.has THEN [ok |-> FALSE, v |-> <<>>]
    ELSE [ok |-> TRUE, v |-> SliceHead(name1.v, 3) \o SliceTail(name2.v, 3)]

\* name.strip() if name else "Unknown Creature"
GenerateName(text) == IF Truthy(text) THEN Strip(text.v) ELSE UnknownCreature

\* lines 137-155 and 212-231: from the model's answer to the response, with
\* what became of the directory.  nm holds the two parent names of a breed
\* request.
PersistAndReply(op, dir, raises, r, newId, nm) ==
    IF raises THEN [web |-> Reply(op, 500, "error", 1, 1), dir |-> dir]
    ELSE LET ex == extract_image_from_response(r)
             base == [Reply(op, 500, "error", 1, 1) EXCEPT !.resp = r, !.called = TRUE]
         IN  IF ex.raised \/ ~Truthy(ex.image) THEN [web |-> base, dir |-> dir]
             ELSE LET dec == b64decode(ex.image.v)
                      name == IF op = "breed" THEN BreedName(ex.text, nm[1], nm[2])
                              ELSE [ok |-> TRUE, v |-> GenerateName(ex.text)]
                      path == image_path(newId)
                      opened == OpenWb(dir, path)
                  IN  IF ~dec.ok THEN [web |-> base, dir |-> opened]
                      ELSE IF ~name.ok
                      THEN [web |-> base, dir |-> WriteImage(opened, path, dec.bytes)]
                      ELSE [web |-> [base EXCEPT !.status = 200, !.body = "ok",
                                                 !.id = newId, !.name = name.v],
                            dir |-> WriteImage(opened, path, dec.bytes)]

\* mutant of ParentsFound: only the first parent is looked for
ParentsFoundFirstOnly(dir, p1, p2) == dir[p1].exists

\* the parent check of breed_animals
ParentsFound(dir, p1, p2) == dir[p1].exists /\ dir[p2].exists

generate_animal(dir, key, raises, r, newId) ==
    IF ~get_client(key).ok
    THEN [web |-> Reply("generate", 500, "unhandled", 1, 0), dir |-> dir]
    ELSE PersistAndReply("generate", dir, raises, r, newId, << Nothing, Nothing >>)

breed_animals(dir, key, p1, p2, n1, n2, raises, r, newId) ==
    LET parent1_name == GetName(n1, Creature1)
        parent2_name == GetName(n2, Creature2)
        asked(w) == [w EXCEPT !.p1 = p1, !.p2 = p2, !.n1 = n1, !.n2 = n2]
        out ==
            IF ~ParentsFound(dir, p1, p2)
            THEN [web |-> Reply("breed", 404, "error", 0, 0), dir |-> dir]
            ELSE IF ~get_client(key).ok
            THEN [web |-> Reply("breed", 500, "unhandled", 1, 0), dir |-> dir]
            ELSE IF ~encode_image(dir[p1]).ok \/ ~encode_image(dir[p2]).ok
            THEN [web |-> Reply("breed", 500, "unhandled", 1, 0), dir |-> dir]
            ELSE PersistAndReply("breed", dir, raises, r, newId,
                                 << parent1_name, parent2_name >>)
    IN  [web |-> asked(out.web), dir |-> out.dir]

\* response.choices[0].message.content.strip(): an empty list, a None message
\* and a None content all raise inside the try
random_prompt(key, raises, r) ==
    IF ~get_client(key).ok THEN Reply("random", 500, "unhandled", 1, 0)
    ELSE IF raises THEN Reply("random", 500, "error", 1, 1)
    ELSE LET base == [Reply("random", 500, "error", 1, 1) EXCEPT !.resp = r, !.called = TRUE]
         IN  IF r = <<>> \/ ~r[1].present \/ ~r[1].content.has THEN base
             ELSE [base EXCEPT !.status = 200, !.body = "ok", !.name = Strip(r[1].content.v)]

\* mutant of OpenW: the file opened in mode 'a', kept and written at its end
OpenAppend(file) == [text |-> file.data, pos |-> Len(file.data)]

\* open(STATE_FILE, 'w'): created or truncated, the position at 0
OpenW(file) == [text |-> <<>>, pos |-> 0]

\* a write of data at position pos of a file holding text
WriteAt(text, pos, data) ==
    SubSeq(text, 1, pos) \o data
    \o (IF Len(text) > pos + Len(data) THEN SubSeq(text, pos + Len(data) + 1, Len(text))
        ELSE <<>>)

(***************************************************************************)
(* The web handlers, each a request handled to its response.  The server   *)
(* of this model takes a request once the response before it has left.     *)
(***************************************************************************)
Answer(out) ==
    /\ web = WebIdle
    /\ web' = out.web
    /\ images' = out.dir
    /\ returned' = IF out.web.status = 200 THEN returned \cup {out.web.id} ELSE returned
    /\ UNCHANGED << apiKey, saved, stateFile, savers, cli, outFile, probe >>

Generate(up, newId) ==
    Answer(generate_animal(images, apiKey, up.raises, up.r, newId))

\* a breed request naming a parent whose file is not there; what the model
\* would answer and the identifier uuid4 would give are not part of the case
BreedMissing(p1, p2, names) ==
    /\ ~(images[p1].exists /\ images[p2].exists)
    /\ Answer(breed_animals(images, apiKey, p1, p2, names[1], names[2],
                            FALSE, <<>>, 1))

\* a breed request whose parents are both on disk
Breed(p1, p2, names, up, newId) ==
    /\ images[p1].exists /\ images[p2].exists
    /\ Answer(breed_animals(images, apiKey, p1, p2, names[1], names[2],
                            up.raises, up.r, newId))

RandomPrompt(up) ==
    /\ web = WebIdle
    /\ web' = random_prompt(apiKey, up.raises, up.r)
    /\ UNCHANGED << apiKey, saved, images, stateFile, returned, savers, cli, outFile, probe >>

SaveState(d) ==
    /\ web = WebIdle
    /\ LET f == OpenW(stateFile)
       IN  stateFile' = File(WriteAt(f.text, f.pos, json_dump(d)))
    /\ web' = Reply("save", 200, "ok", 0, 0)
    /\ saved' = [has |-> TRUE, v |-> d]
    /\ UNCHANGED << apiKey, images, returned, savers, cli, outFile, probe >>

load_state(file) ==
    IF file.exists
    THEN LET got == json_load(file.data)
         IN  IF got.ok THEN [Reply("load", 200, "ok", 0, 0) EXCEPT !.doc = got.v]
             ELSE Reply("load", 500, "error", 0, 0)
    ELSE [Reply("load", 200, "ok", 0, 0) EXCEPT !.doc = EmptyGame]

LoadState ==
    /\ web = WebIdle
    /\ web' = load_state(stateFile)
    /\ UNCHANGED << apiKey, saved, images, stateFile, returned, savers, cli, outFile, probe >>

\* the response leaves for the client
Deliver ==
    /\ web # WebIdle
    /\ web' = WebIdle
    /\ UNCHANGED << apiKey, saved, images, stateFile, returned, savers, cli, outFile, probe >>

(***************************************************************************)
(* save_state step by step, for requests in flight together.  Each request *)
(* opens the file itself, so each has a position of its own; json.dump     *)
(* fills the request's buffer, which close() flushes in one write.         *)
(***************************************************************************)
SaverIdle == [pc |-> "idle", doc |-> JNull, buf |-> <<>>, pos |-> 0]

Savers == 1..NumSavers

\* documents of different lengths on disk
ConcDocs ==
    { JArr(<<>>), EmptyGame, JNum(<< "4","2" >>),
      JObj(<< JPair(Animals, JArr(<< Creature >>)) >>) }

SaveOpen(p, d) ==
    /\ savers[p].pc = "idle"
    /\ LET f == OpenW(stateFile)
       IN  /\ stateFile' = File(f.text)
           /\ savers' = [savers EXCEPT ![p] = [pc |-> "open", doc |-> d,
                                                buf |-> <<>>, pos |-> f.pos]]
    /\ UNCHANGED << apiKey, saved, images, returned, web, cli, outFile, probe >>

SaveDump(p) ==
    /\ savers[p].pc = "open"
    /\ savers' = [savers EXCEPT ![p].pc = "dumped", ![p].buf = json_dump(savers[p].doc)]
    /\ UNCHANGED << apiKey, saved, images, stateFile, returned, web, cli, outFile, probe >>

SaveClose(p) ==
    /\ savers[p].pc = "dumped"
    /\ stateFile' = File(WriteAt(stateFile.data, savers[p].pos, savers[p].buf))
    /\ savers' = [savers EXCEPT ![p].pc = "done", ![p].buf = <<>>]
    /\ UNCHANGED << apiKey, saved, images, returned, web, cli, outFile, probe >>

(***************************************************************************)
(* generate_image.py.  An --input or --input2 argument is not given        *)
(* ("none"), the empty string ("empty"), the path of a file ("file") or a  *)
(* path that names no file ("missing").                                    *)
(***************************************************************************)
ArgKinds == {"none", "empty", "file", "missing"}

\* truthiness of args.input: None and "" are falsy
Given(arg) == arg \in {"file", "missing"}

\* os.path.exists(path)
PathExists(arg) == arg = "file"

CliIdle ==
    [ran |-> FALSE, input |-> "none", input2 |-> "none", exit |-> 0, clients |-> 0,
     chats |-> 0, resp |-> <<>>, called |-> FALSE, wrote |-> FALSE]

\* extract_and_save_image: True, False, or an exception that nothing catches
extract_and_save_image(response, file) ==
    IF response = <<>> \/ ~response[1].present
    THEN [result |-> "False", file |-> file, wrote |-> FALSE]
    ELSE LET message == response[1]
             k == IF message.hasImages /\ message.images # <<>>
                  THEN ScanImages(message.images, 1) ELSE 0
         IN  IF k = 0 THEN [result |-> "False", file |-> file, wrote |-> FALSE]
             ELSE LET part == SplitComma1(message.images[k].url)
                      dec == b64decode(part.v)
                  IN  IF ~part.ok THEN [result |-> "raise", file |-> file, wrote |-> FALSE]
                      ELSE IF ~dec.ok
                      THEN [result |-> "raise", file |-> File(<<>>), wrote |-> FALSE]
                      ELSE [result |-> "True", file |-> File(dec.bytes), wrote |-> TRUE]

\* mutant of ExitCode: the result of the generation is dropped
ExitCodeZero(result) == 0

\* sys.exit(0 if success else 1); an uncaught exception ends the process
\* with status 1 as well
ExitCode(result) == IF result = "True" THEN 0 ELSE 1

\* generate_from_text, generate_from_image, generate_from_two_images: the
\* client first, then the input files, then the call and the extraction
CliGenerate(key, inputs, raises, r, file) ==
    LET base == [ran |-> TRUE, input |-> "none", input2 |-> "none", exit |-> 1,
                 clients |-> 1, chats |-> 0, resp |-> <<>>, called |-> FALSE,
                 wrote |-> FALSE]
    IN  IF ~get_client(key).ok THEN [cli |-> base, file |-> file]
        ELSE IF \E i \in 1..Len(inputs) : ~PathExists(inputs[i])
        THEN [cli |-> base, file |-> file]
        ELSE IF raises THEN [cli |-> [base EXCEPT !.chats = 1], file |-> file]
        ELSE LET kept == extract_and_save_image(r, file)
             IN  [cli |-> [base EXCEPT !.chats = 1, !.resp = r, !.called = TRUE,
                                       !.exit = ExitCode(kept.result),
                                       !.wrote = kept.wrote],
                  file |-> kept.file]

main(key, input, input2, raises, r, file) ==
    LET out ==
            IF Given(input) /\ Given(input2)
            THEN CliGenerate(key, << input, input2 >>, raises, r, file)
            ELSE IF Given(input)
            THEN CliGenerate(key, << input >>, raises, r, file)
            ELSE IF Given(input2)
            THEN [cli |-> [CliIdle EXCEPT !.ran = TRUE, !.exit = 1], file |-> file]
            ELSE CliGenerate(key, <<>>, raises, r, file)
    IN  [cli |-> [out.cli EXCEPT !.input = input, !.input2 = input2], file |-> out.file]

CliMain(input, input2, up) ==
    /\ LET out == main(apiKey, input, input2, up.raises, up.r, outFile)
       IN  /\ cli' = out.cli
           /\ outFile' = out.file
    /\ UNCHANGED << apiKey, saved, images, stateFile, returned, web, savers, probe >>

(***************************************************************************)
(* The extractor on its own, over every response of a bounded shape.       *)
(***************************************************************************)
RECURSIVE SeqsUpTo(_, _)
SeqsUpTo(S, n) ==
    IF n = 0 THEN {<<>>}
    ELSE LET shorter == SeqsUpTo(S, n - 1)
         IN  shorter \cup {Append(q, x) : q \in shorter, x \in S}

ProbeItems ==
    { Img(PayloadA), Img(PayloadABC), Img(<<>>),
      Item("image_url", NoCommaUrl), Item("image_url", TwoCommaUrl),
      Item("image_url", TextUrl), Item("image_url", HttpUrl),
      Item("text", DataUrl(PayloadA)) }

ProbeContents == {Nothing, Some(<<>>), Some(Zephyr)}

ProbeMessages ==
    {NoMessage}
    \cup {Message(c, FALSE, <<>>) : c \in ProbeContents}
    \cup {Message(c, TRUE, q) : c \in ProbeContents, q \in SeqsUpTo(ProbeItems, MaxImages)}

ProbeResponses ==
    {<<>>} \cup {<< m >> : m \in ProbeMessages}
    \cup {<< m, Message(Some(Alphaborn), TRUE, << Img(PayloadABC) >>) >> :
            m \in ProbeMessages}

ProbeIdle ==
    [ran |-> FALSE, resp |-> <<>>,
     out |-> [raised |-> FALSE, image |-> Nothing, text |-> Nothing]]

\* the extractor applied to the response at hand
Extract ==
    /\ ~probe.ran
    /\ probe' = [probe EXCEPT !.ran = TRUE,
                               !.out = extract_image_from_response(probe.resp)]
    /\ UNCHANGED << apiKey, saved, images, stateFile, returned, web, savers, cli, outFile >>

(***************************************************************************)
(* Specifications.                                                         *)
(***************************************************************************)
Init ==
    /\ apiKey \in BOOLEAN
    /\ images = [n \in FileNames |-> NoFile]
    /\ stateFile = NoFile
    /\ returned = {}
    /\ saved = [has |-> FALSE, v |-> JNull]
    /\ web = WebIdle
    /\ savers = [p \in Savers |-> SaverIdle]
    /\ cli = CliIdle
    /\ outFile = NoFile
    /\ probe = ProbeIdle

\* the web server, one request at a time
Next ==
    \/ \E up \in Upstream, newId \in Ids : Generate(up, newId)
    \/ \E p1 \in FileNames, p2 \in FileNames, names \in NamePairs :
          BreedMissing(p1, p2, names)
    \/ \E p1 \in Ids, p2 \in Ids, names \in NamePairs, up \in Upstream, newId \in Ids :
          Breed(p1, p2, names, up, newId)
    \/ \E up \in Upstream : RandomPrompt(up)
    \/ \E d \in FewDocs : SaveState(d)
    \/ LoadState
    \/ Deliver

Spec == Init /\ [][Next]_vars

\* the state file alone, one request at a time
NextState ==
    \/ \E d \in Docs : SaveState(d)
    \/ LoadState
    \/ Deliver

SpecState == Init /\ [][NextState]_vars

\* save-state requests in flight together
NextConc ==
    \/ \E p \in Savers, d \in ConcDocs : SaveOpen(p, d)
    \/ \E p \in Savers : SaveDump(p)
    \/ \E p \in Savers : SaveClose(p)
    \/ LoadState
    \/ Deliver

SpecConc == Init /\ [][NextConc]_vars

\* the command-line tool, run after run
NextCli ==
    \E input \in ArgKinds, input2 \in ArgKinds, up \in Upstream :
        CliMain(input, input2, up)

SpecCli == Init /\ [][NextCli]_vars

\* /api/generate and the tool's text mode, answered by the same model
NextPipe ==
    \/ \E r \in WebResponses, newId \in Ids : Generate(Returns(r), newId)
    \/ \E r \in WebResponses : CliMain("none", "none", Returns(r))

SpecPipe == Init /\ [][NextPipe]_vars

\* the extractor alone, on each response of ProbeResponses
InitExtract ==
    /\ apiKey = TRUE
    /\ images = [n \in FileNames |-> NoFile]
    /\ stateFile = NoFile
    /\ returned = {}
    /\ saved = [has |-> FALSE, v |-> JNull]
    /\ web = WebIdle
    /\ savers = [p \in Savers |-> SaverIdle]
    /\ cli = CliIdle
    /\ outFile = NoFile
    /\ probe \in {[ProbeIdle EXCEPT !.resp = r] : r \in ProbeResponses}

NextExtract == Extract

SpecExtract == InitExtract /\ [][NextExtract]_vars

(***************************************************************************)
(* The properties.  What follows states them in terms of their own: the    *)
(* positions of a string's characters, not the handlers' operators.        *)
(***************************************************************************)
MinOf(S) == CHOOSE x \in S : \A y \in S : x <= y

MaxOf(S) == CHOOSE x \in S : \A y \in S : y <= x

\* the positions of s that hold no white space
Inked(s) == {i \in 1..Len(s) : s[i] \notin {" ", "\n", "\t"}}

\* s without its leading and trailing white space
Stripped(s) == IF Inked(s) = {} THEN <<>> ELSE SubSeq(s, MinOf(Inked(s)), MaxOf(Inked(s)))

\* the first three characters, the last three characters
First3(s) == SubSeq(s, 1, MinOf({3, Len(s)}))

Last3(s) == SubSeq(s, Len(s) - MinOf({3, Len(s)}) + 1, Len(s))

Commas(url) == {i \in 1..Len(url) : url[i] = ","}

\* the items of a media list that are inline images with a data:image URL
Matching(items) ==
    {i \in 1..Len(items) :
        /\ items[i].type = "image_url"
        /\ Len(items[i].url) >= Len(DataImage)
        /\ \A j \in 1..Len(DataImage) : items[i].url[j] = DataImage[j]}

\* the media list of the first candidate message, empty when it has none
FirstMedia(r) ==
    IF r # <<>> /\ r[1].present /\ r[1].hasImages THEN r[1].images ELSE <<>>

\* the URL the image field comes from
ChosenUrl(r) == FirstMedia(r)[MinOf(Matching(FirstMedia(r)))].url

\* the text of the first candidate message, when it has a non-empty one
HasText(r) == r # <<>> /\ r[1].present /\ r[1].content.has /\ r[1].content.v # <<>>

\* a request has just been answered
Answered(op) == web.op = "none" /\ web'.op = op

\* C1: a breed request naming a parent whose file does not exist (None.png
\* when the body holds no id) is answered 404 with an error, with no client
\* built, no chat-completion call made and no file written.
C1_MissingParentIs404 ==
    [][(Answered("breed") /\ ~(images[web'.p1].exists /\ images[web'.p2].exists))
         => /\ web'.status = 404
            /\ web'.body = "error"
            /\ web'.clients = 0
            /\ web'.chats = 0
            /\ images' = images]_vars

\* C1 witness: a breed request without parent1_id, its other parent on
\* disk, answered 404.
C1_Witness ==
    /\ web.op = "breed" /\ web.status = 404
    /\ web.p1 = 0 /\ images[web.p2].exists

\* C2: a generate or breed request answered with an error (404 or 500) has
\* left the generated-images directory as it was.
C2_NoPartialFailure ==
    [][((Answered("generate") \/ Answered("breed")) /\ web'.status \in {404, 500})
         => images' = images]_vars

\* C3: with no API key, a model-calling web request fails before any chat
\* call, with status 500 and the JSON error body the handler makes.
C3_MissingKeyIsJsonError ==
    (~apiKey /\ web.op \in {"random", "generate", "breed"} /\ web.clients > 0)
        => /\ web.chats = 0
           /\ web.status = 500
           /\ web.body = "error"

\* C4: every identifier a success response carried names a file of the
\* directory, then and ever after, and a breed request whose parents are
\* both such identifiers is not answered 404.
C4_ReturnedIdsResolve ==
    /\ \A id \in returned : images[id].exists
    /\ (web.op \in {"generate", "breed"} /\ web.status = 200) => images[web.id].exists
    /\ (web.op = "breed" /\ web.status = 404)
          => ~(web.p1 \in returned /\ web.p2 \in returned)

\* C4 witness: a breed request that succeeded on a parent an earlier
\* response had returned.
C4_Witness ==
    /\ web.op = "breed" /\ web.status = 200
    /\ web.p1 \in returned /\ web.p1 # web.id
    /\ web.p2 \in returned /\ web.p2 # web.id

\* C5: load-state answers the document of the last save, whatever was saved
\* before it, and {"animals": [], "familyLines": []} when nothing was saved.
C5_SaveLoadRoundTrip ==
    web.op = "load"
        => /\ web.status = 200
           /\ web.doc = IF saved.has THEN saved.v ELSE EmptyGame

\* C5 witness: {"animals": [{"id": "ab12"}]} was saved and then loaded.
C5_Witness ==
    /\ web.op = "load" /\ saved.has
    /\ web.doc = JObj(<< JPair(Animals, JArr(<< Creature >>)) >>)

\* C6: for every response the extractor returns: the text of the first
\* candidate when non-empty, the part after the first comma of the first
\* matching item's URL, and empty fields where there is none.
C6_ExtractionIsTotal ==
    probe.ran
        => LET r == probe.resp
               o == probe.out
           IN  /\ ~o.raised
               /\ o.text = IF HasText(r) THEN r[1].content ELSE Nothing
               /\ IF Matching(FirstMedia(r)) = {} THEN o.image = Nothing
                  ELSE /\ Commas(ChosenUrl(r)) # {}
                       /\ o.image.has
                       /\ o.image.v = SubSeq(ChosenUrl(r), MinOf(Commas(ChosenUrl(r))) + 1,
                                             Len(ChosenUrl(r)))

\* the name a body gives a parent, the default standing in for an absent one
NameOr(n, default) == IF n.kind = "absent" THEN default ELSE n.v

\* C7: a breed success carries the stripped name of the response, else the
\* first three characters of parent 1's name and the last three of parent
\* 2's; a generate success carries the stripped name, else Unknown Creature.
C7_DerivedName ==
    /\ (web.op = "breed" /\ web.status = 200)
          => web.name = IF HasText(web.resp) THEN Stripped(web.resp[1].content.v)
                        ELSE First3(NameOr(web.n1, Creature1))
                             \o Last3(NameOr(web.n2, Creature2))
    /\ (web.op = "generate" /\ web.status = 200)
          => web.name = IF HasText(web.resp) THEN Stripped(web.resp[1].content.v)
                        ELSE UnknownCreature

\* C7 witness: Alphaborn and Zephyrix bred, the response without a name:
\* the offspring is Alprix.
C7_Witness ==
    /\ web.op = "breed" /\ web.status = 200
    /\ ~HasText(web.resp)
    /\ web.n1 = NameStr(Alphaborn) /\ web.n2 = NameStr(Zephyrix)
    /\ web.name = << "A","l","p","r","i","x" >>

\* the response holds an image the tool can write: a matching item in the
\* first candidate, a comma in its URL, a payload that decodes
Writable(r) ==
    /\ Matching(FirstMedia(r)) # {}
    /\ Commas(ChosenUrl(r)) # {}
    /\ b64decode(SubSeq(ChosenUrl(r), MinOf(Commas(ChosenUrl(r))) + 1,
                        Len(ChosenUrl(r)))).ok

DecodedImage(r) ==
    b64decode(SubSeq(ChosenUrl(r), MinOf(Commas(ChosenUrl(r))) + 1, Len(ChosenUrl(r)))).bytes

\* the mode of a run calls the model: everything but --input2 alone
Generates(c) == c.input \in {"file", "missing"} \/ c.input2 \notin {"file", "missing"}

C9_LastWriterWins ==
    (\A p \in Savers : savers[p].pc = "done")
        => \E p \in Savers :
              /\ stateFile = File(json_dump(savers[p].doc))
              /\ load_state(stateFile).status = 200
              /\ load_state(stateFile).doc = savers[p].doc

\* C10: answered by the same response, /api/generate succeeds exactly when
\* the tool writes its file and exits 0, and both write the same bytes.
C10_SameDecision ==
    (web.op = "generate" /\ web.called /\ cli.ran /\ cli.called /\ web.resp = cli.resp)
        => /\ web.status = 200 <=> (cli.exit = 0 /\ cli.wrote)
           /\ web.status = 200 => images[web.id].data = outFile.data

=============================================================================
